---- MODULE Spec2Model ----
(***************************************************************************)
(* Model of the PyMEOS wrapper generator, src/build_pymeos_functions.py,   *)
(* and of the constructors of TBox, src/pymeos/pymeos/boxes/tbox.py.       *)
(*                                                                         *)
(* Representation of Python strings.  A Python str is modelled as a        *)
(* sequence of atoms (TLA+ strings); the str is the concatenation of its   *)
(* atoms and Python's + is \o.  The atoms of the input alphabet are the    *)
(* symbols " ", "*", ",", "(", ")", ";", "...", the line break "\n" and    *)
(* word atoms (runs of \w characters).  An identifier is a maximal run of  *)
(* word atoms; the suffix "_out" is always an atom of its own, so that     *)
(* endswith('_out') is decided by the last atom.  Literal pieces of the    *)
(* emitted Python text are atoms of their own.  Python's None is the       *)
(* sentinel None below.                                                    *)
(***************************************************************************)
EXTENDS Naturals, Sequences, FiniteSets, TLC

VARIABLES decls, source, pc, content, matches, idx, file, startFile, emitted, runs, outputs,
          boxes, heap, call, op

vars == <<decls, source, pc, content, matches, idx, file, startFile, emitted, runs, outputs,
          boxes, heap, call, op>>

\* The state of the generator, and the state of the TBox objects of
\* src/pymeos/pymeos/boxes/tbox.py: the TBox objects constructed so far,
\* the native structs they refer to (a handle is an index of heap), and the
\* call of the constructor the last operation made (none when it made none),
\* and the last call of a method of a TBox.
genVars == <<decls, source, pc, content, matches, idx, file, startFile, emitted, runs, outputs>>

tboxVars == <<boxes, heap, call, op>>

\* ------------------------------------------------------------------ bounds
MaxParams == 3
MaxDecls == 2
MaxRuns == 2

\* ------------------------------------------------------- Python str helpers
\* None where a str is expected, and None where a tuple is expected
None == <<"<None>">>

NoneTuple == [none |-> TRUE]

\* reading past the end of a str
EOT == "<eot>"

Symbols == {" ", "*", ",", "(", ")", ";", "...", "\n", EOT}

\* \w : an atom made of word characters
IsWord(a) == a \notin Symbols

\* the character class [\w ,\*] of the params group
InParamClass(a) == IsWord(a) \/ a \in {" ", ",", "*"}

Last(s) == s[Len(s)]

Front(s) == SubSeq(s, 1, Len(s) - 1)

StartsWith(s, p) == Len(s) >= Len(p) /\ SubSeq(s, 1, Len(p)) = p

EndsWith(s, p) == Len(s) >= Len(p) /\ SubSeq(s, Len(s) - Len(p) + 1, Len(s)) = p

RECURSIVE LStrip(_, _)
LStrip(s, a) == IF s # <<>> /\ Head(s) = a THEN LStrip(Tail(s), a) ELSE s

RECURSIVE RStrip(_, _)
RStrip(s, a) == IF s # <<>> /\ Last(s) = a THEN RStrip(Front(s), a) ELSE s

\* str.strip(): the only whitespace left after splitlines() is the blank
Strip(s) == RStrip(LStrip(s, " "), " ")

\* str.split(sep): a list of strs, never empty ('' splits to [''])
RECURSIVE Split(_, _)
Split(s, sep) ==
    IF \A i \in 1..Len(s) : s[i] # sep
    THEN <<s>>
    ELSE LET i == CHOOSE k \in 1..Len(s) : s[k] = sep /\ \A j \in 1..(k - 1) : s[j] # sep
         IN  <<SubSeq(s, 1, i - 1)>> \o Split(SubSeq(s, i + 1, Len(s)), sep)

\* sep.join(list)
RECURSIVE Join(_, _)
Join(sep, list) ==
    IF list = <<>> THEN <<>>
    ELSE IF Len(list) = 1 THEN list[1]
    ELSE list[1] \o sep \o Join(sep, Tail(list))

\* ''.join(content.splitlines())
RECURSIVE JoinSplitLines(_)
JoinSplitLines(s) ==
    IF s = <<>> THEN <<>>
    ELSE (IF Head(s) = "\n" THEN <<>> ELSE <<Head(s)>>) \o JoinSplitLines(Tail(s))

\* ------------------------------------------------- lib.objects (registry)
\* Conversion(c_type, p_type, p_to_c, c_to_p).  A converter is a Python
\* lambda from an expression to an expression; it is modelled by the name of
\* its template and applied by Apply.  "None" is an absent converter.
Conversion(c_type, p_type, p_to_c, c_to_p) ==
    [c_type |-> c_type, p_type |-> p_type, p_to_c |-> p_to_c, c_to_p |-> c_to_p]

Templates ==
    {"None", "identity", "cast", "cast_each", "encode", "decode",
     "datetime_to_timestamptz", "timestamptz_to_datetime",
     "timedelta_to_interval", "interval_to_timedelta"}

\* The converters of the registered entries.
registry_template(template, name) ==
    CASE template = "encode" -> name \o <<".encode('utf-8')">>
      [] template = "decode" -> <<"_ffi.string(">> \o name \o <<").decode('utf-8')">>
      [] OTHER -> <<template, "(">> \o name \o <<")">>

\* The lambdas of get_param_conversion (lines 92, 94, 95), and the registry's.
Apply(template, c_type, name) ==
    CASE template = "identity" -> name
      [] template = "cast" -> <<"_ffi.cast('">> \o c_type \o <<"', ">> \o name \o <<")">>
      [] template = "cast_each" ->
            <<"[_ffi.cast('">> \o Front(c_type) \o <<"', x) for x in ">> \o name \o <<"]">>
      [] OTHER -> registry_template(template, name)

conversion_map ==
    (<<"void">> :> Conversion(<<"void">>, <<"None">>, "None", "None")) @@
    (<<"bool">> :> Conversion(<<"bool">>, <<"bool">>, "None", "None")) @@
    (<<"int">> :> Conversion(<<"int">>, <<"int">>, "None", "None")) @@
    (<<"double">> :> Conversion(<<"double">>, <<"float">>, "None", "None")) @@
    (<<"char", " ", "*">> :>
        Conversion(<<"char", " ", "*">>, <<"str">>, "encode", "decode")) @@
    (<<"TimestampTz">> :>
        Conversion(<<"TimestampTz">>, <<"datetime">>,
                   "datetime_to_timestamptz", "timestamptz_to_datetime")) @@
    (<<"Interval", " ", "*">> :>
        Conversion(<<"Interval", " ", "*">>, <<"timedelta">>,
                   "timedelta_to_interval", "interval_to_timedelta"))

\* ------------------------------------------------------ get_param_conversion
Quoted(param_type) == <<"'">> \o param_type \o <<"'">>

\* Mutant: a double pointer is converted like any other unregistered type.
get_param_conversion_no_double(param_type) ==
    IF param_type \notin DOMAIN conversion_map
    THEN Conversion(param_type, Quoted(param_type), "cast", "identity")
    ELSE conversion_map[param_type]

\* Mutant: the synthesized single-pointer conversion passes the value through.
get_param_conversion_no_cast(param_type) ==
    IF param_type \notin DOMAIN conversion_map
    THEN IF EndsWith(param_type, <<"*", "*">>)
         THEN Conversion(param_type, Quoted(param_type), "cast_each", "identity")
         ELSE Conversion(param_type, Quoted(param_type), "identity", "identity")
    ELSE conversion_map[param_type]

get_param_conversion(param_type) ==
    IF param_type \notin DOMAIN conversion_map
    THEN IF EndsWith(param_type, <<"*", "*">>)
         THEN Conversion(param_type, Quoted(param_type), "cast_each", "identity")
         ELSE Conversion(param_type, Quoted(param_type), "cast", "identity")
    ELSE conversion_map[param_type]

\* ------------------------------------------------------------------ get_param
\* The tuple (name, host type, conversion statement, call argument).
Parameter(name, p_type, conv, arg) ==
    [name |-> name, p_type |-> p_type, conv |-> conv, arg |-> arg]

\* Mutant: the pointer markers written before the name are not folded in.
param_type_of_no_fold(inner_param) == Join(<<" ">>, Front(Split(inner_param, " ")))

\* Lines 67-72: the type, with the pointer markers of the name folded in.
param_type_of(inner_param) ==
    LET split == Split(inner_param, " ")
        stars == IF StartsWith(Last(split), <<"*", "*">>) THEN <<" ", "*", "*">>
                 ELSE IF StartsWith(Last(split), <<"*">>) THEN <<" ", "*">>
                 ELSE <<>>
    IN  Join(<<" ">>, Front(split)) \o stars

\* Mutant: the native call always gets the raw name.
get_param_raw_arg(inner_param) ==
    LET split == Split(inner_param, " ")
        param_type == param_type_of(inner_param)
        stripped == LStrip(Last(split), "*")
        param_name == IF stripped = <<"str">> THEN <<"string">>
                      ELSE IF stripped = <<"is">> THEN <<"iset">>
                      ELSE stripped
        conversion == get_param_conversion(param_type)
    IN  IF stripped = <<"void">> THEN NoneTuple
        ELSE IF conversion.p_to_c = "None"
        THEN Parameter(param_name, conversion.p_type, None, param_name)
        ELSE Parameter(param_name, conversion.p_type,
                       param_name \o <<"_converted", " = ">>
                           \o Apply(conversion.p_to_c, conversion.c_type, param_name),
                       param_name)

\* Mutant: void is a parameter like any other.
get_param_keeps_void(inner_param) ==
    LET split == Split(inner_param, " ")
        param_type == param_type_of(inner_param)
        stripped == LStrip(Last(split), "*")
        conversion == get_param_conversion(param_type)
    IN  IF conversion.p_to_c = "None"
        THEN Parameter(stripped, conversion.p_type, None, stripped)
        ELSE Parameter(stripped, conversion.p_type,
                       stripped \o <<"_converted", " = ">>
                           \o Apply(conversion.p_to_c, conversion.c_type, stripped),
                       stripped \o <<"_converted">>)

get_param(inner_param) ==
    LET split == Split(inner_param, " ")
        param_type == param_type_of(inner_param)
        stripped == LStrip(Last(split), "*")
        param_name == IF stripped = <<"str">> THEN <<"string">>
                      ELSE IF stripped = <<"is">> THEN <<"iset">>
                      ELSE stripped
        conversion == get_param_conversion(param_type)
    IN  IF stripped = <<"void">> THEN NoneTuple
        ELSE IF conversion.p_to_c = "None"
        THEN Parameter(param_name, conversion.p_type, None, param_name)
        ELSE Parameter(param_name, conversion.p_type,
                       param_name \o <<"_converted", " = ">>
                           \o Apply(conversion.p_to_c, conversion.c_type, param_name),
                       param_name \o <<"_converted">>)

\* ----------------------------------------------------------------- get_params
RECURSIVE DropNone(_)
DropNone(list) ==
    IF list = <<>> THEN <<>>
    ELSE (IF Head(list) = NoneTuple THEN <<>> ELSE <<Head(list)>>) \o DropNone(Tail(list))

get_params(inner_params) ==
    LET raw == Split(inner_params, ",")
    IN  DropNone([i \in 1..Len(raw) |-> get_param(Strip(raw[i]))])

\* ------------------------------------------------------------ get_return_type
\* The pair (return_type, result_conversion).
get_return_type(inner_return_type) ==
    IF inner_return_type \notin DOMAIN conversion_map
    THEN <<Quoted(inner_return_type), None>>
    ELSE LET conversion == conversion_map[inner_return_type]
         IN  <<conversion.p_type,
               IF conversion.c_to_p # "None"
               THEN Apply(conversion.c_to_p, conversion.c_type, <<"result">>)
               ELSE None>>

\* ------------------------------------------------------------------- f_regex
\* extern (?P<returnType>(?:const )?\w+(?: \*+)?) ?(?P<function>\w+)\((?P<params>[\w ,\*]*)\);
At(s, k) == IF k \in 1..Len(s) THEN s[k] ELSE EOT

\* the end of the longest run of atoms satisfying T that starts at j (j - 1: none)
IsStar(a) == a = "*"

\* The character classes of the quantified parts: \w, \* and [\w ,\*].
InClass(class, a) ==
    CASE class = "word" -> IsWord(a)
      [] class = "star" -> IsStar(a)
      [] class = "params" -> InParamClass(a)

RunEnd(s, j, class) ==
    CHOOSE k \in (j - 1)..Len(s) :
        /\ \A m \in j..k : InClass(class, s[m])
        /\ ~InClass(class, At(s, k + 1))

NoMatch == [ok |-> FALSE]

\* \((?P<params>[\w ,\*]*)\); from the "(" expected at position open
MatchParams(s, i, retEnd, fnStart, fnEnd) ==
    LET p == RunEnd(s, fnEnd + 2, "params")
    IN  IF At(s, fnEnd + 1) = "(" /\ At(s, p + 1) = ")" /\ At(s, p + 2) = ";"
        THEN [ok |-> TRUE,
              returnType |-> SubSeq(s, i + 2, retEnd),
              function |-> SubSeq(s, fnStart, fnEnd),
              params |-> SubSeq(s, fnEnd + 2, p),
              end |-> p + 2]
        ELSE NoMatch

\* \w+(?: \*+)?) ?(?P<function>\w+)... with \w+ starting at j; all quantifiers
\* are greedy, and \w+ gives back its last atom when nothing separates the
\* return type from the "("
MatchFrom(s, i, j) ==
    LET w == RunEnd(s, j, "word")
        st == IF At(s, w + 1) = " " /\ At(s, w + 2) = "*"
              THEN RunEnd(s, w + 2, "star") ELSE w
        sp == IF At(s, st + 1) = " " THEN st + 1 ELSE st
        f == RunEnd(s, sp + 1, "word")
    IN  IF w < j THEN NoMatch
        ELSE IF f > sp THEN MatchParams(s, i, st, sp + 1, f)
        ELSE IF sp = w /\ w > j THEN MatchParams(s, i, w - 1, w, w)
        ELSE NoMatch

MatchAt(s, i) ==
    IF At(s, i) = "extern" /\ At(s, i + 1) = " "
    THEN LET withConst == IF At(s, i + 2) = "const" /\ At(s, i + 3) = " "
                          THEN MatchFrom(s, i, i + 4) ELSE NoMatch
         IN  IF withConst.ok THEN withConst ELSE MatchFrom(s, i, i + 2)
    ELSE NoMatch

\* Mutant: only the first match is returned (re.search instead of re.finditer).
RECURSIVE finditer_first(_, _)
finditer_first(s, i) ==
    IF i > Len(s) THEN <<>>
    ELSE IF MatchAt(s, i).ok THEN <<MatchAt(s, i)>> ELSE finditer_first(s, i + 1)

\* re.finditer: the leftmost non-overlapping matches from position i on
RECURSIVE finditer(_, _)
finditer(s, i) ==
    IF i > Len(s) THEN <<>>
    ELSE LET m == MatchAt(s, i)
         IN  IF m.ok THEN <<m>> \o finditer(s, m.end + 1) ELSE finditer(s, i + 1)

\* ----------------------------------------------------------- static tables
BASE ==
    <<"from datetime import datetime, timedelta", "\n",
      "from typing import Any, Tuple", "\n",
      "\n",
      "import _meos_cffi", "\n",
      "from dateutil.parser import parse", "\n",
      "\n",
      "_ffi = _meos_cffi.ffi", "\n",
      "_lib = _meos_cffi.lib", "\n",
      "\n",
      "\n",
      "def datetime_to_timestamptz(dt: datetime) -> int:", "\n",
      "    return _lib.pg_timestamptz_in(dt.strftime('%Y-%m-%d %H:%M:%S%z').encode('utf-8'), -1)", "\n",
      "\n",
      "\n",
      "def timestamptz_to_datetime(ts: int) -> datetime:", "\n",
      "    return parse(pg_timestamptz_out(ts))", "\n",
      "\n",
      "\n",
      "def timedelta_to_interval(td: timedelta) -> Any:", "\n",
      "    return _ffi.new('Interval *', {'time': td.microseconds + td.seconds * 1000000, 'day': td.days, 'month': 0})", "\n",
      "\n",
      "\n",
      "def interval_to_timedelta(interval: Any) -> timedelta:", "\n",
      "    # TODO fix for months/years", "\n",
      "    return timedelta(days=interval.day, microseconds=interval.time)", "\n">>

manual_functions ==
    (<<"period_shift_tscale">> :>
        "result parameter is also input. start and duration parameters can be null.") @@
    (<<"timestampset_shift_tscale">> :> "start and duration parameters can be null.") @@
    (<<"periodset_shift_tscale">> :> "start and duration parameters can be null.") @@
    (<<"periodset_timestamps">> :> "count is an output parameter.") @@
    (<<"periodset_periods">> :> "count is an output parameter.")

\* ------------------------------------------------------ build_function_string
InList(x, list) == \E i \in 1..Len(list) : list[i] = x

\* ''.join(list)
Concat(list) == Join(<<>>, list)

\* Mutant: the output parameters are collected last first.
RECURSIVE OutParams_reversed(_)
OutParams_reversed(parameters) ==
    IF parameters = <<>> THEN <<>>
    ELSE OutParams_reversed(Tail(parameters))
         \o (IF EndsWith(Head(parameters).name, <<"_out">>) THEN <<Head(parameters)>> ELSE <<>>)

\* [p for p in parameters if p[0].endswith('_out')]
RECURSIVE OutParams(_)
OutParams(parameters) ==
    IF parameters = <<>> THEN <<>>
    ELSE (IF EndsWith(Head(parameters).name, <<"_out">>) THEN <<Head(parameters)>> ELSE <<>>)
         \o OutParams(Tail(parameters))

\* Mutant: the output parameters are not filtered out.
NotIn_keeps_all(parameters, out_params) == parameters

\* [p for p in parameters if p not in out_params]
RECURSIVE NotIn(_, _)
NotIn(parameters, out_params) ==
    IF parameters = <<>> THEN <<>>
    ELSE (IF InList(Head(parameters), out_params) THEN <<>> ELSE <<Head(parameters)>>)
         \o NotIn(Tail(parameters), out_params)

\* [p for p in parameters if p[2] is not None]
RECURSIVE WithConversion(_)
WithConversion(parameters) ==
    IF parameters = <<>> THEN <<>>
    ELSE (IF Head(parameters).conv # None THEN <<Head(parameters)>> ELSE <<>>)
         \o WithConversion(Tail(parameters))

\* x or ''
OrEmpty(x) == IF x = None THEN <<>> ELSE x

\* Mutant: the last parameter is taken as the result whatever its name.
has_result_param_any_name(parameters) == Len(parameters) > 1

\* Mutant: a parameter named result is taken as the result even when alone.
has_result_param_no_len(parameters) ==
    Len(parameters) > 0 /\ Last(parameters).name = <<"result">>

\* Line 110: the last parameter is the result parameter.
has_result_param(parameters) ==
    Len(parameters) > 1 /\ Last(parameters).name = <<"result">>

\* Lines 113-115, on the parameters left after line 111.
out_params_of(parameters) ==
    IF Len(parameters) > 1 THEN OutParams(parameters) ELSE <<>>

\* Mutant: the note is not ended by a line break.
note_of_unterminated(function_name) ==
    IF function_name \in DOMAIN manual_functions
    THEN <<"#TODO ", manual_functions[function_name]>>
    ELSE <<>>

\* Lines 148-150: the note of a function of the table.
note_of(function_name) ==
    IF function_name \in DOMAIN manual_functions
    THEN <<"#TODO ", manual_functions[function_name], "\n">>
    ELSE <<>>

\* Mutant: no special case for the return type None.
function_text_always_returns(function_name, params, return_type, param_conversions, inner_params, result_manipulation) ==
    LET note == note_of(function_name)
    IN  note \o <<"def", " ">> \o function_name \o <<"(">> \o params
             \o <<")", " -> ">> \o return_type \o <<":", "\n">>
             \o param_conversions
             \o <<"    ", "result", " = ", "_lib.">> \o function_name
             \o <<"(">> \o inner_params \o <<")", "\n">>
             \o result_manipulation

\* Mutant: the conversions and the allocations follow the native call.
function_text_converts_late(function_name, params, return_type, param_conversions, inner_params, result_manipulation) ==
    LET note == note_of(function_name)
    IN  note \o <<"def", " ">> \o function_name \o <<"(">> \o params
             \o <<")", " -> ">> \o return_type \o <<":", "\n">>
             \o <<"    ", "result", " = ", "_lib.">> \o function_name
             \o <<"(">> \o inner_params \o <<")", "\n">>
             \o param_conversions
             \o OrEmpty(result_manipulation)

\* Lines 148-163: the text of the function.
function_text(function_name, params, return_type, param_conversions, inner_params, result_manipulation) ==
    LET note == note_of(function_name)
        header == note \o <<"def", " ">> \o function_name \o <<"(">> \o params
                       \o <<")", " -> ">> \o return_type \o <<":", "\n">>
    IN  IF return_type = <<"None">>
        THEN header \o param_conversions
                    \o <<"    ", "_lib.">> \o function_name \o <<"(">> \o inner_params \o <<")">>
        ELSE IF result_manipulation = None
        THEN header \o param_conversions
                    \o <<"    ", "result", " = ", "_lib.">> \o function_name
                    \o <<"(">> \o inner_params \o <<")", "\n">>
                    \o <<"    ", "return", " ", "result">>
        ELSE header \o param_conversions
                    \o <<"    ", "result", " = ", "_lib.">> \o function_name
                    \o <<"(">> \o inner_params \o <<")", "\n">>
                    \o result_manipulation

build_function_string(function_name, return_type0, parameters0, result_conversion) ==
    LET isResult == has_result_param(parameters0)
        result_param == IF isResult THEN Last(parameters0) ELSE NoneTuple
        parameters == IF isResult THEN Front(parameters0) ELSE parameters0
        out_params == out_params_of(parameters)
        inputs == NotIn(parameters, out_params)
        params == Join(<<", ">>, [i \in 1..Len(inputs) |->
                      inputs[i].name \o <<": ">> \o inputs[i].p_type])
        converted == WithConversion(inputs)
        param_conversions1 ==
            Join(<<"\n", "    ">>, [i \in 1..Len(converted) |-> converted[i].conv])
        inner_params1 ==
            Join(<<", ">>, [i \in 1..Len(parameters) |->
                IF InList(parameters[i], out_params)
                THEN parameters[i].name ELSE parameters[i].arg])
        result_manipulation1 ==
            IF result_conversion # None
            THEN <<"    ", "result", " = ">> \o result_conversion \o <<"\n">>
            ELSE None
        param_conversions2 ==
            IF isResult
            THEN param_conversions1 \o <<"\n", "    ", "out_result", " = ", "_ffi.new(">>
                    \o result_param.p_type \o <<")">>
            ELSE param_conversions1
        inner_params == IF isResult THEN inner_params1 \o <<", ", "out_result">>
                        ELSE inner_params1
        result_manipulation2 ==
            IF isResult
            THEN IF return_type0 = <<"bool">>
                 THEN OrEmpty(result_manipulation1)
                      \o <<"    ", "if", " ", "result", ":", "\n",
                           "        ", "return", " ", "out_result", "[0]", "\n",
                           "    ", "raise", " ", "Exception(f'C call went wrong: {", "result", "}')">>
                 ELSE OrEmpty(result_manipulation1)
                      \o <<"    ", "return", " ", "out_result", "[0]", "\n">>
            ELSE OrEmpty(result_manipulation1) \o <<"    ", "return", " ", "result">>
        return_type1 == IF isResult THEN result_param.p_type ELSE return_type0
        param_conversions3 ==
            param_conversions2 \o Concat([i \in 1..Len(out_params) |->
                <<"\n", "    ">> \o out_params[i].name \o <<" = ", "_ffi.new(">>
                    \o out_params[i].p_type \o <<")">>])
        return_type2 ==
            return_type1 \o Concat([i \in 1..Len(out_params) |->
                <<", ">> \o out_params[i].p_type])
        result_manipulation ==
            result_manipulation2 \o Concat([i \in 1..Len(out_params) |->
                <<", ">> \o out_params[i].name])
        return_type == IF Len(out_params) > 0
                       THEN <<"\"Tuple[">> \o return_type2 \o <<"]\"">>
                       ELSE return_type2
        param_conversions == IF Len(param_conversions3) > 0
                             THEN <<"    ">> \o param_conversions3 \o <<"\n">>
                             ELSE param_conversions3
    IN  function_text(function_name, params, return_type, param_conversions,
                      inner_params, result_manipulation)

\* ------------------------------------------------------------ the input text
\* A statement of the input: keyword, return type, what is written between
\* the return type and the name, name, parameters.
DeclSep(kw, ret, sep, fn, params) ==
    [kw |-> kw, ret |-> ret, sep |-> sep, fn |-> fn, params |-> params]

\* The usual layout: "int f(", "Foo *f(".
Decl(kw, ret, fn, params) ==
    DeclSep(kw, ret, IF Last(ret) = "*" THEN <<>> ELSE <<" ">>, fn, params)

\* The statement as it is written in the header, on a line of its own.
\* A parameter is its type as written (with the blank or the pointer markers
\* that precede the name) and its name.
P(type, name) == [type |-> type, name |-> name]

SourceOf(d) ==
    <<d.kw, " ">> \o d.ret \o d.sep \o d.fn
        \o <<"(">>
        \o Join(<<",", " ">>, [i \in 1..Len(d.params) |-> d.params[i].type \o d.params[i].name])
        \o <<")", ";", "\n">>

Source(ds) == Concat([i \in 1..Len(ds) |-> SourceOf(ds[i])])

\* The examples of the specification.
TboxMake ==
    Decl("extern", <<"bool">>, <<"tbox_make">>,
         <<P(<<"Span", " ", "*">>, <<"s">>), P(<<"Period", " ", "*">>, <<"p">>),
           P(<<"TBox", " ", "*">>, <<"result">>)>>)

PeriodsetTimestamps ==
    Decl("extern", <<"int">>, <<"periodset_timestamps">>,
         <<P(<<"PeriodSet", " ", "*">>, <<"ps">>), P(<<"TimestampTz", " ", "*", "*">>, <<"times">>),
           P(<<"int", " ", "*">>, <<"count">>)>>)

PeriodShiftTscale ==
    Decl("extern", <<"bool">>, <<"period_shift_tscale">>,
         <<P(<<"Period", " ", "*">>, <<"p">>), P(<<"Interval", " ", "*">>, <<"start">>),
           P(<<"Interval", " ", "*">>, <<"duration">>)>>)

SetSrid ==
    Decl("extern", <<"void">>, <<"set_srid">>,
         <<P(<<"STBox", " ", "*">>, <<"box">>), P(<<"int", " ">>, <<"srid">>)>>)

\* Statements the grammar does not match: a variadic function, and one that
\* is not extern.
Variadic ==
    Decl("extern", <<"int">>, <<"meos_log">>,
         <<P(<<"char", " ", "*">>, <<"fmt">>), P(<<>>, <<"...">>)>>)

StaticInline == Decl("static", <<"int">>, <<"helper">>, <<P(<<"int", " ">>, <<"n">>)>>)

\* A declaration wrapped between two parameters, as the library's header
\* wraps its long lines.
Wrapped ==
    Decl("extern", <<"bool">>, <<"tbox_eq">>,
         <<P(<<"const", " ", "TBox", " ", "*">>, <<"box1">>),
           P(<<"\n", " ", "const", " ", "TBox", " ", "*">>, <<"box2">>)>>)

\* A declaration with the line break between the return type and the name.
\* The name is written character by character: the scan gives back the
\* last character of a run of word characters.
BrokenLine ==
    DeclSep("extern", <<"int">>, <<"\n">>, <<"f", "o", "o">>,
            <<P(<<"int", " ">>, <<"x">>)>>)

Examples == {TboxMake, PeriodsetTimestamps, PeriodShiftTscale, SetSrid}

\* Two more declarations of the library: a parameter named str, and a
\* parameter of a type that is neither a pointer nor registered.
TboxIn ==
    Decl("extern", <<"TBox", " ", "*">>, <<"tbox_in">>,
         <<P(<<"char", " ", "*">>, <<"str">>)>>)

StboxSetSrid ==
    Decl("extern", <<"STBox", " ", "*">>, <<"stbox_set_srid">>,
         <<P(<<"STBox", " ", "*">>, <<"box">>), P(<<"int32", " ">>, <<"srid">>)>>)

\* A parameter whose type is a pointer to void.
Pfree ==
    Decl("extern", <<"void">>, <<"pfree">>, <<P(<<"void", " ", "*">>, <<"ptr">>)>>)

\* Pointer markers written apart from the type and from the name.
SpacedPointers ==
    Decl("extern", <<"int">>, <<"spaced">>,
         <<P(<<"Foo", " ", "*", " ">>, <<"p">>), P(<<"Bar", " ", "*", "*", " ">>, <<"q">>),
           P(<<"char", " ", "*", " ">>, <<"str">>)>>)

Extras == {TboxIn, StboxSetSrid, Pfree, SpacedPointers}

\* A prototype with a function-pointer parameter, int (*cb)(int), and one
\* with pointers of three levels as return type and as parameter type.
FunctionPointer ==
    Decl("extern", <<"int">>, <<"set_cb">>,
         <<P(<<"int", " ", "(", "*">>, <<"cb", ")", "(", "int", ")">>)>>)

TriplePointer ==
    Decl("extern", <<"Foo", " ", "*", "*", "*">>, <<"deep">>,
         <<P(<<"Foo", " ", "*", "*", "*">>, <<"p">>)>>)

DriverItems ==
    Examples \cup {Variadic, StaticInline, Wrapped, BrokenLine, FunctionPointer, TriplePointer}

\* Sequences over S of length at most n.
SeqsUpTo(S, n) == UNION {[1..k -> S] : k \in 0..n}

\* Generated declarations: every return type, a name with and one without a
\* manual note, and up to MaxParams parameters with distinct names.
GenReturnTypes ==
    {<<"void">>, <<"bool">>, <<"int">>, <<"char", " ", "*">>, <<"Foo", " ", "*">>}

GenFunctions == {<<"tbox_make">>, <<"periodset_periods">>}

GenTypes == {<<"Foo", " ", "*">>, <<"int", " ">>, <<"char", " ", "*">>}

GenNames == {<<"p">>, <<"n">>, <<"result">>, <<"count", "_out">>, <<"size", "_out">>}

\* The parameters: result of any type, p an integer or a handle, n and
\* count_out integers, size_out a handle.
GenParams ==
    {tn \in GenTypes \X GenNames :
        /\ tn[2] = <<"p">> => tn[1] # <<"char", " ", "*">>
        /\ tn[2] \in {<<"n">>, <<"count", "_out">>} => tn[1] = <<"int", " ">>
        /\ tn[2] = <<"size", "_out">> => tn[1] = <<"Foo", " ", "*">>}

GenParamLists ==
    {ps \in SeqsUpTo(GenParams, MaxParams) :
        \A i, j \in 1..Len(ps) : i # j => ps[i][2] # ps[j][2]}

GenDecls ==
    {Decl("extern", r, f, [i \in 1..Len(ps) |-> P(ps[i][1], ps[i][2])]) :
        r \in GenReturnTypes, f \in GenFunctions, ps \in GenParamLists}
    \cup {Decl("extern", r, f, <<P(<<>>, <<"void">>)>>) : r \in GenReturnTypes, f \in GenFunctions}
    \cup Examples \cup Extras

\* No call of the TBox constructor has been made.
NoCall == [outcome |-> "none"]

\* No method of a TBox has been called yet.
NoOp == [method |-> "none"]

\* ------------------------------------------------------------------- main()
\* Mutant: the output is opened for appending.
OpenAppend(old) == old

\* Line 48: open(..., 'w+') truncates the file.
OpenTruncate(old) == <<>>

\* Lines 43-46: read the input and scan it.
ReadInput ==
    /\ pc = "start"
    /\ content' = source
    /\ matches' = finditer(JoinSplitLines(source), 1)
    /\ pc' = "read"
    /\ UNCHANGED tboxVars
    /\ UNCHANGED <<decls, source, idx, file, startFile, emitted, runs, outputs>>

\* Line 43: the input cannot be opened or read.
ReadFails ==
    /\ pc = "start"
    /\ pc' = "failed"
    /\ UNCHANGED tboxVars
    /\ UNCHANGED <<decls, source, content, matches, idx, file, startFile, emitted, runs, outputs>>

\* Line 48: open the output for writing.
OpenOutput ==
    /\ pc = "read"
    /\ file' = OpenTruncate(file)
    /\ pc' = "opened"
    /\ UNCHANGED tboxVars
    /\ UNCHANGED <<decls, source, content, matches, idx, startFile, emitted, runs, outputs>>

\* Line 48: the output cannot be opened.
OpenFails ==
    /\ pc = "read"
    /\ pc' = "failed"
    /\ UNCHANGED tboxVars
    /\ UNCHANGED <<decls, source, content, matches, idx, file, startFile, emitted, runs, outputs>>

\* Line 49.
WriteBase ==
    /\ pc = "opened"
    /\ file' = file \o BASE
    /\ idx' = 1
    /\ pc' = "loop"
    /\ UNCHANGED tboxVars
    /\ UNCHANGED <<decls, source, content, matches, startFile, emitted, runs, outputs>>

\* Lines 51-57: the wrapper of one match.
Wrapper(match) ==
    LET rt == get_return_type(match.returnType)
        params == get_params(match.params)
    IN  [function |-> match.function,
         returnType |-> match.returnType,
         return_type |-> rt[1],
         parameters |-> params,
         conversions |-> LET raw == Split(match.params, ",")
                         IN  [i \in 1..Len(raw) |->
                                 get_param_conversion(param_type_of(Strip(raw[i])))],
         text |-> build_function_string(match.function, rt[1], params, rt[2])]

\* Lines 50-59: one iteration of the loop.
WriteFunction ==
    /\ pc = "loop"
    /\ idx <= Len(matches)
    /\ LET w == Wrapper(matches[idx])
       IN  /\ file' = file \o w.text \o <<"\n", "\n", "\n">>
           /\ emitted' = Append(emitted, w)
    /\ idx' = idx + 1
    /\ UNCHANGED tboxVars
    /\ UNCHANGED <<decls, source, pc, content, matches, startFile, runs, outputs>>

\* Lines 49, 58, 59: a write raises; the with block closes the file with
\* what was written before.
WriteFails ==
    /\ \/ /\ pc = "opened"
          /\ file' = file
       \/ /\ pc = "loop"
          /\ idx <= Len(matches)
          /\ file' \in {file, file \o Wrapper(matches[idx]).text}
    /\ pc' = "failed"
    /\ UNCHANGED tboxVars
    /\ UNCHANGED <<decls, source, content, matches, idx, startFile, emitted, runs, outputs>>

\* Line 50: no match is left; the file is closed.
Finish ==
    /\ pc = "loop"
    /\ idx > Len(matches)
    /\ pc' = "done"
    /\ outputs' = Append(outputs, file)
    /\ UNCHANGED tboxVars
    /\ UNCHANGED <<decls, source, content, matches, idx, file, startFile, emitted, runs>>

\* The generator is invoked again on the same input.
Rerun ==
    /\ pc \in {"done", "failed"}
    /\ runs < MaxRuns
    /\ runs' = runs + 1
    /\ pc' = "start"
    /\ content' = <<>>
    /\ matches' = <<>>
    /\ idx' = 0
    /\ emitted' = <<>>
    /\ startFile' = file
    /\ UNCHANGED tboxVars
    /\ UNCHANGED <<decls, source, file, outputs>>

InitWith(texts) ==
    /\ decls \in texts
    /\ source = Source(decls)
    /\ pc = "start"
    /\ content = <<>>
    /\ matches = <<>>
    /\ idx = 0
    /\ file = <<>>
    /\ startFile = <<>>
    /\ emitted = <<>>
    /\ runs = 1
    /\ outputs = <<>>
    /\ boxes = <<>>
    /\ heap = <<>>
    /\ call = NoCall
    /\ op = NoOp

Init == InitWith(SeqsUpTo(DriverItems, MaxDecls))

Next ==
    \/ ReadInput
    \/ ReadFails
    \/ OpenOutput
    \/ OpenFails
    \/ WriteBase
    \/ WriteFunction
    \/ WriteFails
    \/ Finish
    \/ Rerun

Spec == Init /\ [][Next]_vars

\* One generated declaration per input, one run.
InitGen == InitWith({<<d>> : d \in GenDecls})

NextGen ==
    \/ ReadInput
    \/ ReadFails
    \/ OpenOutput
    \/ OpenFails
    \/ WriteBase
    \/ WriteFunction
    \/ WriteFails
    \/ Finish

SpecGen == InitGen /\ [][NextGen]_vars

\* ============================================ src/pymeos/pymeos/boxes/tbox.py
MaxBoxes == 2

\* Python values: None is NoneTuple; an int, a float and a str carry a tag.
\* A float is kept in tenths: PyFloat(104) is 10.4.
PyInt(n) == [int |-> n]

PyFloat(n) == [float |-> n]

PyStr(text) == [str |-> text]

\* isinstance(x, int)
IsInt(x) == DOMAIN x = {"int"}

\* float(x)
ToFloat(x) == IF IsInt(x) THEN PyFloat(10 * x.int) ELSE x

\* The native library (pymeos_cffi) and pymeos.time.Period: constructors of
\* native structs.
intspan_make(lower, upper, lower_inc, upper_inc) ==
    [basetype |-> "int", lower |-> lower.int, upper |-> upper.int,
     lower_inc |-> lower_inc, upper_inc |-> upper_inc]

floatspan_make(lower, upper, lower_inc, upper_inc) ==
    [basetype |-> "float", lower |-> lower.float, upper |-> upper.float,
     lower_inc |-> lower_inc, upper_inc |-> upper_inc]

PeriodInner(lower, upper, lower_inc, upper_inc) ==
    [lower |-> lower.int, upper |-> upper.int,
     lower_inc |-> lower_inc, upper_inc |-> upper_inc]

tbox_make(span, period) == [span |-> span, period |-> period]

\* The strings the constructor is called with, and the boxes they denote.
TBoxStrings == {PyStr("TBOXINT XT([0, 10),[1, 5))")}

tbox_in(string) ==
    tbox_make(intspan_make(PyInt(0), PyInt(10), TRUE, FALSE),
              PeriodInner(PyInt(1), PyInt(5), TRUE, FALSE))

tbox_copy(inner) == inner

\* A handle of a native struct: its address in heap.
Handle(i) == [addr |-> i]

Deref(h) == heap[h.addr]

\* The arguments of a call TBox(string, xmin=, xmax=, tmin=, tmax=, _inner=);
\* the four flags keep their defaults.
Args(string, xmin, xmax, tmin, tmax, _inner) ==
    [string |-> string, xmin |-> xmin, xmax |-> xmax, tmin |-> tmin, tmax |-> tmax,
     xmin_inc |-> TRUE, xmax_inc |-> FALSE, tmin_inc |-> TRUE, tmax_inc |-> FALSE,
     _inner |-> _inner]

ArgsSet ==
    {Args(string, xmin, xmax, tmin, tmax, _inner) :
        string \in {NoneTuple} \cup TBoxStrings,
        xmin \in {NoneTuple, PyInt(0), PyFloat(0)},
        xmax \in {NoneTuple, PyInt(10), PyFloat(104)},
        tmin \in {NoneTuple, PyInt(1)},
        tmax \in {NoneTuple, PyInt(5)},
        _inner \in {NoneTuple} \cup {Handle(i) : i \in DOMAIN heap}}

\* Mutant: a string and a bound pair may be given together.
InitAssertion_or(a) ==
    \/ a._inner # NoneTuple
    \/ a.string # NoneTuple
    \/ (a.xmin # NoneTuple /\ a.xmax # NoneTuple)
    \/ (a.tmin # NoneTuple /\ a.tmax # NoneTuple)

\* Lines 56-58: the assertion of __init__.
InitAssertion(a) ==
    \/ a._inner # NoneTuple
    \/ (a.string # NoneTuple)
           # (\/ (a.xmin # NoneTuple /\ a.xmax # NoneTuple)
              \/ (a.tmin # NoneTuple /\ a.tmax # NoneTuple))

\* Lines 64-73: the box made of the bounds.
InnerOfBounds(a) ==
    LET span == IF a.xmin # NoneTuple /\ a.xmax # NoneTuple
                THEN IF IsInt(a.xmin) /\ IsInt(a.xmax)
                     THEN intspan_make(a.xmin, a.xmax, a.xmin_inc, a.xmax_inc)
                     ELSE floatspan_make(ToFloat(a.xmin), ToFloat(a.xmax),
                                         a.xmin_inc, a.xmax_inc)
                ELSE NoneTuple
        period == IF a.tmin # NoneTuple /\ a.tmax # NoneTuple
                  THEN PeriodInner(a.tmin, a.tmax, a.tmin_inc, a.tmax_inc)
                  ELSE NoneTuple
    IN  tbox_make(span, period)

\* The record of a call of a method: the method, the index of the receiver
\* in boxes (0 for the constructor), the arguments and the outcome.
Op(method, self, args, outcome) ==
    [method |-> method, self |-> self, args |-> args, outcome |-> outcome]

\* Lines 46-73: __init__ when its assertion passes.  _inner is kept as it
\* is; tbox_in and tbox_make return a new native struct.
TBoxInit ==
    /\ Len(boxes) < MaxBoxes
    /\ \E a \in ArgsSet :
           /\ InitAssertion(a)
           /\ IF a._inner # NoneTuple
              THEN /\ boxes' = Append(boxes, [_inner |-> a._inner])
                   /\ heap' = heap
                   /\ call' = [outcome |-> "constructed", args |-> a, by |-> "_inner"]
              ELSE IF a.string # NoneTuple
              THEN /\ heap' = Append(heap, tbox_in(a.string))
                   /\ boxes' = Append(boxes, [_inner |-> Handle(Len(heap) + 1)])
                   /\ call' = [outcome |-> "constructed", args |-> a, by |-> "tbox_in"]
              ELSE /\ heap' = Append(heap, InnerOfBounds(a))
                   /\ boxes' = Append(boxes, [_inner |-> Handle(Len(heap) + 1)])
                   /\ call' = [outcome |-> "constructed", args |-> a, by |-> "tbox_make"]
    /\ op' = Op("__init__", 0, NoneTuple, "returned")
    /\ UNCHANGED genVars

\* Lines 56-58: the assertion of __init__ fails; no object is constructed.
TBoxInitFails ==
    /\ Len(boxes) < MaxBoxes
    /\ \E a \in ArgsSet :
           /\ ~InitAssertion(a)
           /\ call' = [outcome |-> "AssertionError", args |-> a, by |-> "none"]
    /\ op' = Op("__init__", 0, NoneTuple, "AssertionError")
    /\ UNCHANGED <<boxes, heap>>
    /\ UNCHANGED genVars

\* Lines 75-86: __copy__ calls the constructor with a copy of the struct.
TBoxCopy ==
    /\ Len(boxes) < MaxBoxes
    /\ \E b \in 1..Len(boxes) :
           LET a == Args(NoneTuple, NoneTuple, NoneTuple, NoneTuple, NoneTuple,
                         Handle(Len(heap) + 1))
           IN  /\ heap' = Append(heap, tbox_copy(Deref(boxes[b]._inner)))
               /\ boxes' = Append(boxes, [_inner |-> a._inner])
               /\ call' = [outcome |-> "constructed", args |-> a, by |-> "_inner"]
               /\ op' = Op("__copy__", b, NoneTuple, "returned")
    /\ UNCHANGED genVars

\* ---- shift, tscale, shift_tscale and round (lines 454-538)
\* A timedelta is a number of days; None is NoneTuple.
TimeDelta(days) == [days |-> days]

\* bool(td): a timedelta of zero is false, and so is None.
Truthy(td) == td # NoneTuple /\ td.days # 0

\* BASE, timedelta_to_interval: the native Interval of a timedelta.
timedelta_to_interval(td) == [day |-> td.days]

\* The native library failed inside a call.
NativeError == [error |-> "native"]

\* The native period_shift_tscale(period, start, duration): the outcomes of
\* the call for the period it is given.  It moves the lower bound by start
\* and sets the length to duration; a box without time dimension keeps
\* none.  With neither start nor duration the library rejects the call, or
\* leaves the period as it is when its checks are compiled out.
period_shift_tscale(period, start, duration) ==
    IF start = NoneTuple /\ duration = NoneTuple
    THEN {NativeError, period}
    ELSE IF period = NoneTuple
    THEN {period}
    ELSE LET moved == IF start = NoneTuple THEN 0 ELSE start.day
             lower == period.lower + moved
             upper == IF duration = NoneTuple THEN period.upper + moved
                      ELSE lower + duration.day
         IN  {[period EXCEPT !.lower = lower, !.upper = upper]}

\* A number of tenths rounded to maxdd decimal digits.
RoundTenths(n, maxdd) == IF maxdd = 0 THEN ((n + 5) \div 10) * 10 ELSE n

\* The native tbox_round(box, maxdd): the float bounds of the span are
\* rounded to maxdd decimal digits.
tbox_round(box, maxdd) ==
    IF box.span # NoneTuple /\ box.span.basetype = "float"
    THEN [box EXCEPT !.span.lower = RoundTenths(box.span.lower, maxdd),
                     !.span.upper = RoundTenths(box.span.upper, maxdd)]
    ELSE box

\* Mutant: the native calls are given the struct of the receiver.
CopyHandle_receiver(inner) == inner

\* Lines 514, 536: the handle tbox_copy returns is the one of a new struct.
CopyHandle(inner) == Handle(Len(heap) + 1)

\* The heap with struct box behind handle h.
Stored(h, box) ==
    IF h.addr > Len(heap) THEN Append(heap, box) ELSE [heap EXCEPT ![h.addr] = box]

\* Line 513: the assertion of shift_tscale.
ShiftTscaleAssertion(shift, duration) == shift # NoneTuple \/ duration # NoneTuple

\* Lines 521, 538: TBox(_inner=new_inner).
Constructed(new_inner) ==
    LET a == Args(NoneTuple, NoneTuple, NoneTuple, NoneTuple, NoneTuple, new_inner)
    IN  /\ boxes' = Append(boxes, [_inner |-> a._inner])
        /\ call' = [outcome |-> "constructed", args |-> a, by |-> "_inner"]

\* Lines 490-521: shift_tscale called on boxes[b], from method (shift and
\* tscale call it with one argument).  When the native call fails, no
\* object refers to the copy, and heap does not keep it.
ShiftTscaleCall(method, b, shift, duration) ==
    LET self == boxes[b]
        args == [shift |-> shift, duration |-> duration]
    IN  IF ~ShiftTscaleAssertion(shift, duration)
        THEN /\ op' = Op(method, b, args, "AssertionError")
             /\ call' = NoCall
             /\ UNCHANGED <<boxes, heap>>
        ELSE LET new_inner == CopyHandle(self._inner)
                 copied == tbox_copy(Deref(self._inner))
                 start == IF Truthy(shift) THEN timedelta_to_interval(shift)
                          ELSE NoneTuple
                 length == IF Truthy(duration) THEN timedelta_to_interval(duration)
                           ELSE NoneTuple
             IN  \E new_period \in period_shift_tscale(copied.period, start, length) :
                     IF new_period = NativeError
                     THEN /\ op' = Op(method, b, args, "NativeError")
                          /\ call' = NoCall
                          /\ UNCHANGED <<boxes, heap>>
                     ELSE /\ heap' = Stored(new_inner, [copied EXCEPT !.period = new_period])
                          /\ Constructed(new_inner)
                          /\ op' = Op(method, b, args, "returned")

Shifts == {NoneTuple, TimeDelta(0), TimeDelta(2)}

Durations == {NoneTuple, TimeDelta(3)}

\* Lines 454-470: shift.
TBoxShift ==
    /\ Len(boxes) < MaxBoxes
    /\ \E b \in 1..Len(boxes), delta \in Shifts :
           ShiftTscaleCall("shift", b, delta, NoneTuple)
    /\ UNCHANGED genVars

\* Lines 472-488: tscale.
TBoxTscale ==
    /\ Len(boxes) < MaxBoxes
    /\ \E b \in 1..Len(boxes), duration \in Durations :
           ShiftTscaleCall("tscale", b, NoneTuple, duration)
    /\ UNCHANGED genVars

\* Lines 490-521: shift_tscale.
TBoxShiftTscale ==
    /\ Len(boxes) < MaxBoxes
    /\ \E b \in 1..Len(boxes), shift \in Shifts, duration \in Durations :
           ShiftTscaleCall("shift_tscale", b, shift, duration)
    /\ UNCHANGED genVars

\* Lines 523-538: round.
TBoxRound ==
    /\ Len(boxes) < MaxBoxes
    /\ \E b \in 1..Len(boxes), maxdd \in {0, 1} :
           LET self == boxes[b]
               new_inner == CopyHandle(self._inner)
           IN  /\ heap' = Stored(new_inner, tbox_round(tbox_copy(Deref(self._inner)), maxdd))
               /\ Constructed(new_inner)
               /\ op' = Op("round", b, [maxdd |-> maxdd], "returned")
    /\ UNCHANGED genVars

InitTBox == InitWith({<<>>})

NextTBox ==
    \/ TBoxInit
    \/ TBoxInitFails
    \/ TBoxCopy
    \/ TBoxShift
    \/ TBoxTscale
    \/ TBoxShiftTscale
    \/ TBoxRound

SpecTBox == InitTBox /\ [][NextTBox]_vars

\* =================================================================== claims
\* ------------------------------------------- reading the declarations
\* The statement is one the grammar of f_regex describes.
Grammatical(d) ==
    /\ d.kw = "extern"
    /\ \A i \in 1..Len(d.params) :
           \A k \in 1..Len(d.params[i].type \o d.params[i].name) :
               \/ InParamClass((d.params[i].type \o d.params[i].name)[k])
               \/ (d.params[i].type \o d.params[i].name)[k] = "\n"

RECURSIVE GrammaticalOf(_)
GrammaticalOf(ds) ==
    IF ds = <<>> THEN <<>>
    ELSE (IF Grammatical(Head(ds)) THEN <<Head(ds)>> ELSE <<>>) \o GrammaticalOf(Tail(ds))

\* The declaration the i-th wrapper of this run was generated from.
DeclOf(i) == GrammaticalOf(decls)[i]

\* The names of the declared parameters; (void) declares none.
RawNames(d) == [i \in 1..Len(d.params) |-> d.params[i].name]

DeclaredNames(d) == IF RawNames(d) = <<<<"void">>>> THEN <<>> ELSE RawNames(d)

\* The host-level name of a declared parameter (the remap table of get_param).
HostName(n) == IF n = <<"str">> THEN <<"string">>
               ELSE IF n = <<"is">> THEN <<"iset">> ELSE n

TrailingResult(d) ==
    Len(DeclaredNames(d)) >= 2 /\ Last(DeclaredNames(d)) = <<"result">>

HasOutSuffix(d) ==
    \E i \in 1..Len(DeclaredNames(d)) : EndsWith(DeclaredNames(d)[i], <<"_out">>)

\* ------------------------------------------- reading the emitted text
\* The first position from i on that holds atom a (0: none).
IndexFrom(s, a, i) ==
    IF \E k \in i..Len(s) : s[k] = a
    THEN CHOOSE k \in i..Len(s) : s[k] = a /\ \A j \in i..(k - 1) : s[j] # a
    ELSE 0

HasAtom(s, a) == \E k \in 1..Len(s) : s[k] = a

Count(s, a) == Cardinality({k \in 1..Len(s) : s[k] = a})

DefAt(text) == IndexFrom(text, "def", 1)

\* The text between the parentheses of the def line.
Signature(text) ==
    LET open == IndexFrom(text, "(", DefAt(text))
        close == IndexFrom(text, ")", open)
    IN  SubSeq(text, open + 1, close - 1)

\* The parameter names of the def line, in order.
SigNames(text) ==
    IF Signature(text) = <<>> THEN <<>>
    ELSE LET parts == Split(Signature(text), ", ")
         IN  [i \in 1..Len(parts) |->
                 SubSeq(parts[i], 1, IndexFrom(parts[i], ": ", 1) - 1)]

\* The return annotation of the def line.
ReturnAnnotation(text) ==
    LET arrow == IndexFrom(text, " -> ", DefAt(text))
    IN  SubSeq(text, arrow + 1, IndexFrom(text, ":", arrow) - 1)

\* The lines of the body.
BodyLines(text) ==
    Split(SubSeq(text, IndexFrom(text, "\n", DefAt(text)) + 1, Len(text)), "\n")

IsCallLine(line) == HasAtom(line, "_lib.")

\* The names of the functions defined in a text, in order.
RECURSIVE DefNames(_)
DefNames(s) ==
    IF DefAt(s) = 0 THEN <<>>
    ELSE LET open == IndexFrom(s, "(", DefAt(s))
         IN  <<SubSeq(s, DefAt(s) + 2, open - 1)>> \o DefNames(SubSeq(s, open + 1, Len(s)))

FunctionsOf(ds) == [i \in 1..Len(ds) |-> ds[i].fn]

\* ------------------------------------------------------------------- C1
\* C1: when a run completes, the output is the preamble followed by exactly
\* one function definition per statement of the input that the grammar
\* matches, named as the declared function, in the order of the input.
C1_OneDefinitionPerMatch ==
    pc = "done" =>
        /\ StartsWith(file, BASE)
        /\ DefNames(SubSeq(file, Len(BASE) + 1, Len(file)))
               = FunctionsOf(GrammaticalOf(decls))
        /\ Len(matches) = Len(GrammaticalOf(decls))

\* The same property where no declaration has a line break between its
\* return type and its name: main joins the lines of the input without a
\* separator, so such a break glues the two words together.
OneDefinitionPerMatchUnbroken ==
    (pc = "done" /\ \A i \in 1..Len(decls) : decls[i].sep # <<"\n">>) =>
        /\ StartsWith(file, BASE)
        /\ DefNames(SubSeq(file, Len(BASE) + 1, Len(file)))
               = FunctionsOf(GrammaticalOf(decls))
        /\ Len(matches) = Len(GrammaticalOf(decls))

\* A completed run over a wrapped declaration and another one.
UnbrokenWitness ==
    /\ pc = "done"
    /\ Len(decls) = 2
    /\ decls[1] = Wrapped
    /\ Len(emitted) = 2

\* ------------------------------------------------------------------- C8
\* C8: every completed run on the same input leaves the same output: the
\* outputs of any two completed runs are equal.
C8_RunsAgree ==
    \A i, j \in 1..Len(outputs) : outputs[i] = outputs[j]

\* Two completed runs, each of which wrote a wrapper.
C8_Witness ==
    /\ pc = "done"
    /\ Len(outputs) >= 2
    /\ Len(emitted) >= 1

\* ------------------------------------------------------------------- C9
\* C9: a run that fails leaves no partial output: the output file is as it
\* was before the run, or empty.
C9_AllOrNothing ==
    pc = "failed" => file \in {startFile, <<>>}

\* ------------------------------------------------------------------- C2
ReturnLine == <<"    ", "return", " ", "result">>

StatusCheckLines ==
    << <<"    ", "if", " ", "result", ":">>,
       <<"        ", "return", " ", "out_result", "[0]">>,
       <<"    ", "raise", " ", "Exception(f'C call went wrong: {", "result", "}')">> >>

LastLines(text, n) ==
    SubSeq(BodyLines(text), Len(BodyLines(text)) - n + 1, Len(BodyLines(text)))

\* C2: for a declaration with at least 2 parameters, the last named result,
\* and a bool return type, the wrapper's signature has no result, its return
\* annotation is the host type of the result parameter, and its body ends
\* with: if result, return the buffer's contents, else raise with result.
C2_BoolResult ==
    \A i \in 1..Len(emitted) :
        (TrailingResult(DeclOf(i)) /\ DeclOf(i).ret = <<"bool">>) =>
            /\ ~InList(<<"result">>, SigNames(emitted[i].text))
            /\ ReturnAnnotation(emitted[i].text) = Last(emitted[i].parameters).p_type
            /\ Len(BodyLines(emitted[i].text)) >= 3
            /\ LastLines(emitted[i].text, 3) = StatusCheckLines

\* ------------------------------------------------------------------- C3
\* C3: no wrapper is emitted for a declaration that has both a trailing
\* result parameter and a parameter with the suffix _out.
C3_ResultWithOutputRejected ==
    \A i \in 1..Len(emitted) : ~(TrailingResult(DeclOf(i)) /\ HasOutSuffix(DeclOf(i)))

\* ------------------------------------------------------------------- C4
\* The line of the body that returns, and the number of values it returns.
ReturnedValues(text) ==
    LET lines == BodyLines(text)
        k == CHOOSE k \in 1..Len(lines) :
                 HasAtom(lines[k], "return") /\ \A j \in (k + 1)..Len(lines) :
                     ~HasAtom(lines[j], "return")
    IN  1 + Count(lines[k], ", ")

\* C4: the wrapper of periodset_timestamps(PeriodSet *ps, TimestampTz **times,
\* int *count) has no count in its signature and returns 2 values.
C4_CountIsOutput ==
    \A i \in 1..Len(emitted) :
        DeclOf(i) = PeriodsetTimestamps =>
            /\ ~InList(<<"count">>, SigNames(emitted[i].text))
            /\ ReturnedValues(emitted[i].text) = 2

\* ------------------------------------------------------------------- C5
NoResultNoSuffix(d) ==
    /\ d.params # <<>>
    /\ Last(RawNames(d)) # <<"result">>
    /\ ~HasOutSuffix(d)

\* C5: for a declaration whose last parameter is not named result and that
\* has no parameter with the suffix _out, the signature lists the declared
\* parameters in declared order, no buffer is allocated, and, unless the
\* return type is void, the body ends with "return result", result being
\* assigned from the native call; for a bool return type the native call is
\* the statement right before the return.
C5_PlainWrapper ==
    \A i \in 1..Len(emitted) :
        NoResultNoSuffix(DeclOf(i)) =>
            LET text == emitted[i].text
                names == DeclaredNames(DeclOf(i))
                lines == BodyLines(text)
            IN  /\ SigNames(text) = [k \in 1..Len(names) |-> HostName(names[k])]
                /\ ~HasAtom(text, "_ffi.new(")
                /\ DeclOf(i).ret # <<"void">> =>
                       /\ Last(lines) = ReturnLine
                       /\ \E k \in 1..Len(lines) :
                              StartsWith(lines[k], <<"    ", "result", " = ", "_lib.">>)
                /\ DeclOf(i).ret = <<"bool">> =>
                       /\ Len(lines) >= 2
                       /\ IsCallLine(lines[Len(lines) - 1])

\* The wrapper of period_shift_tscale(Period *p, Interval *start, Interval
\* *duration) has been emitted.
C5_Witness ==
    \E i \in 1..Len(emitted) :
        /\ DeclOf(i) = PeriodShiftTscale
        /\ SigNames(emitted[i].text) = <<<<"p">>, <<"start">>, <<"duration">>>>

\* ------------------------------------------------------------------- C6
\* The code's roles: the result parameter, and the output parameters among
\* the parameters that are left.
HasResultRole(d) == TrailingResult(d)

HasOutputRole(d) ==
    LET rest == IF HasResultRole(d) THEN Front(DeclaredNames(d)) ELSE DeclaredNames(d)
    IN  Len(rest) > 1 /\ \E k \in 1..Len(rest) : EndsWith(rest[k], <<"_out">>)

\* C6: for a declaration of return type void with no result and no output
\* parameter, the body holds the native call and no return statement.
C6_VoidHasNoReturn ==
    \A i \in 1..Len(emitted) :
        (DeclOf(i).ret = <<"void">> /\ ~HasResultRole(DeclOf(i)) /\ ~HasOutputRole(DeclOf(i))) =>
            /\ \E k \in 1..Len(BodyLines(emitted[i].text)) :
                   StartsWith(BodyLines(emitted[i].text)[k],
                              <<"    ", "_lib.">> \o DeclOf(i).fn \o <<"(">>)
            /\ ~HasAtom(emitted[i].text, "return")

\* The wrapper of set_srid(STBox *box, int srid) has been emitted.
C6_Witness ==
    \E i \in 1..Len(emitted) :
        /\ DeclOf(i) = SetSrid
        /\ HasAtom(emitted[i].text, "_lib.")

\* ------------------------------------------------------------------- C7
IsConversion(c) ==
    /\ DOMAIN c = {"c_type", "p_type", "p_to_c", "c_to_p"}
    /\ c.p_to_c \in Templates
    /\ c.c_to_p \in Templates

\* The converter is an explicit cast to the native type t.
CastsTo(template, t) ==
    /\ template # "None"
    /\ Apply(template, t, <<"x">>) = <<"_ffi.cast('">> \o t \o <<"', ">> \o <<"x">> \o <<")">>

PassesThrough(template, t) ==
    /\ template # "None"
    /\ Apply(template, t, <<"x">>) = <<"x">>

Unregistered(c) == c.c_type \notin DOMAIN conversion_map

SingleOrNoPointer(c) == ~EndsWith(c.c_type, <<"*", "*">>)

\* C7 as stated: every lookup returns a Conversion; for an unregistered type
\* that is not a double pointer the host type is the native type's name and
\* both converters are a cast to the native type.
C7_CastBothWays ==
    \A i \in 1..Len(emitted) :
        \A k \in 1..Len(emitted[i].conversions) :
            LET c == emitted[i].conversions[k]
            IN  /\ IsConversion(c)
                /\ (Unregistered(c) /\ SingleOrNoPointer(c)) =>
                       /\ c.p_type = Quoted(c.c_type)
                       /\ CastsTo(c.p_to_c, c.c_type)
                       /\ CastsTo(c.c_to_p, c.c_type)

\* C7 as amended: the host-to-native converter is a cast to the native type
\* and the native-to-host converter passes the value through.
C7_CastInPassOut ==
    \A i \in 1..Len(emitted) :
        \A k \in 1..Len(emitted[i].conversions) :
            LET c == emitted[i].conversions[k]
            IN  /\ IsConversion(c)
                /\ (Unregistered(c) /\ SingleOrNoPointer(c)) =>
                       /\ c.p_type = Quoted(c.c_type)
                       /\ CastsTo(c.p_to_c, c.c_type)
                       /\ PassesThrough(c.c_to_p, c.c_type)

\* A wrapper whose declaration has a parameter of an unregistered pointer
\* type and one of an unregistered type that is no pointer.
C7_Witness ==
    \E i \in 1..Len(emitted) :
        /\ \E k \in 1..Len(emitted[i].conversions) :
               emitted[i].conversions[k].c_type = <<"STBox", " ", "*">>
        /\ \E k \in 1..Len(emitted[i].conversions) :
               emitted[i].conversions[k].c_type = <<"int32">>

\* ------------------------------------------------------------------ C10
\* The parameter named result is the result carrier: it is not in the
\* signature and the native call gets the buffer out_result.
ResultIsCarrier(text) ==
    /\ ~InList(<<"result">>, SigNames(text))
    /\ HasAtom(text, "out_result")

\* The parameter named result is an input: it is in the signature and no
\* buffer stands for it.
ResultIsInput(text) ==
    /\ InList(<<"result">>, SigNames(text))
    /\ ~HasAtom(text, "out_result")

\* C10 as stated: a parameter named result is the result carrier if and only
\* if the declaration has at least 2 parameters, and an input otherwise.
C10_ResultIffTwoParams ==
    \A i \in 1..Len(emitted) :
        InList(<<"result">>, DeclaredNames(DeclOf(i))) =>
            IF Len(DeclaredNames(DeclOf(i))) >= 2
            THEN ResultIsCarrier(emitted[i].text)
            ELSE ResultIsInput(emitted[i].text)

\* C10 as amended: a parameter named result is the result carrier if and
\* only if the declaration has at least 2 parameters and it is the last of
\* them, and an input otherwise.
C10_ResultIffLastOfTwo ==
    \A i \in 1..Len(emitted) :
        InList(<<"result">>, DeclaredNames(DeclOf(i))) =>
            IF TrailingResult(DeclOf(i))
            THEN ResultIsCarrier(emitted[i].text)
            ELSE ResultIsInput(emitted[i].text)

\* Wrappers of both kinds can be emitted: here, one whose result parameter is
\* the carrier.
C10_Witness ==
    \E i \in 1..Len(emitted) :
        /\ TrailingResult(DeclOf(i))
        /\ ResultIsCarrier(emitted[i].text)

\* ------------------------------------------------------------------ C11
\* The declared names that end in the output-marker suffix.
SuffixedNames(d) ==
    {DeclaredNames(d)[k] : k \in {j \in 1..Len(DeclaredNames(d)) :
                                   EndsWith(DeclaredNames(d)[j], <<"_out">>)}}

\* A buffer is allocated for the name: "    <name> = _ffi.new(...".
HasBufferFor(text, name) ==
    \E k \in 1..Len(BodyLines(text)) :
        StartsWith(BodyLines(text)[k], <<"    ">> \o name \o <<" = ", "_ffi.new(">>)

\* The parameter is treated as an output carrier: it is not in the
\* signature and the native call gets a buffer allocated for it.
IsOutputCarrier(text, name) ==
    /\ ~InList(name, SigNames(text))
    /\ HasBufferFor(text, name)

\* The parameter is treated as an input: it is in the signature and no
\* buffer is allocated for it.
IsInput(text, name) ==
    /\ InList(name, SigNames(text))
    /\ ~HasBufferFor(text, name)

\* C11: a parameter whose name ends in _out is an output carrier if and only
\* if the declaration has at least 2 parameters and no result carrier, and
\* an input otherwise.
C11_OutputIffNoResult ==
    \A i \in 1..Len(emitted) :
        \A name \in SuffixedNames(DeclOf(i)) :
            IF Len(DeclaredNames(DeclOf(i))) >= 2 /\ ~HasResultRole(DeclOf(i))
            THEN IsOutputCarrier(emitted[i].text, name)
            ELSE IsInput(emitted[i].text, name)

\* The same property for the declarations that do not have both a result
\* carrier and a name with the suffix.
OutputIffNoResultUnlessBoth ==
    \A i \in 1..Len(emitted) :
        \A name \in SuffixedNames(DeclOf(i)) :
            ~(TrailingResult(DeclOf(i)) /\ Len(DeclaredNames(DeclOf(i))) >= 3) =>
                IF Len(DeclaredNames(DeclOf(i))) >= 2 /\ ~HasResultRole(DeclOf(i))
                THEN IsOutputCarrier(emitted[i].text, name)
                ELSE IsInput(emitted[i].text, name)

\* ------------------------------------------------------------------ C12
\* The declared parameters; (void) declares none.
DeclaredParams(d) == IF RawNames(d) = <<<<"void">>>> THEN <<>> ELSE d.params

\* The native type of a declared parameter: its type as written, without
\* the blank that separates it from the name.
DeclaredType(p) == RStrip(p.type, " ")

\* The number of parameters left when the result carrier is taken away.
RestLen(d) == Len(DeclaredParams(d)) - (IF HasResultRole(d) THEN 1 ELSE 0)

\* The role build_function_string gives to the k-th declared parameter.
RoleOf(d, k) ==
    IF HasResultRole(d) /\ k = Len(DeclaredParams(d)) THEN "Result"
    ELSE IF RestLen(d) > 1 /\ EndsWith(DeclaredParams(d)[k].name, <<"_out">>) THEN "Output"
    ELSE "Input"

\* The declared parameters of role Input from the k-th on, in declared order.
RECURSIVE InputsFrom(_, _)
InputsFrom(d, k) ==
    IF k > Len(DeclaredParams(d)) THEN <<>>
    ELSE (IF RoleOf(d, k) = "Input" THEN <<DeclaredParams(d)[k]>> ELSE <<>>)
         \o InputsFrom(d, k + 1)

\* The annotations of the def line, in order.
SigTypes(text) ==
    IF Signature(text) = <<>> THEN <<>>
    ELSE LET parts == Split(Signature(text), ", ")
         IN  [i \in 1..Len(parts) |->
                 SubSeq(parts[i], IndexFrom(parts[i], ": ", 1) + 1, Len(parts[i]))]

\* The declaration has a parameter list: parameters, or (void).  One
\* written f() has none; the grammar of the specification has no such list.
HasParamList(d) == d.params # <<>>

CallLine(text) ==
    LET lines == BodyLines(text)
    IN  lines[CHOOSE k \in 1..Len(lines) : IsCallLine(lines[k])]

\* The arguments of the native call, in order.
CallArgs(text) ==
    LET line == CallLine(text)
        open == IndexFrom(line, "(", 1)
        close == IndexFrom(line, ")", open)
    IN  IF close = open + 1 THEN <<>>
        ELSE Split(SubSeq(line, open + 1, close - 1), ", ")

\* The body holds the statement "    <line>".
HasStatement(text, line) ==
    \E k \in 1..Len(BodyLines(text)) : BodyLines(text)[k] = <<"    ">> \o line

\* The argument the k-th declared parameter is to contribute, and what the
\* body is to hold for it.
ArgumentOf(d, k) ==
    LET name == HostName(DeclaredParams(d)[k].name)
        c == get_param_conversion(DeclaredType(DeclaredParams(d)[k]))
    IN  CASE RoleOf(d, k) = "Result" -> <<"out_result">>
          [] RoleOf(d, k) = "Output" -> name
          [] OTHER -> IF c.p_to_c = "None" THEN name ELSE name \o <<"_converted">>

ArgumentIsReady(text, d, k) ==
    LET name == HostName(DeclaredParams(d)[k].name)
        c == get_param_conversion(DeclaredType(DeclaredParams(d)[k]))
    IN  CASE RoleOf(d, k) = "Result" -> HasBufferFor(text, <<"out_result">>)
          [] RoleOf(d, k) = "Output" -> HasBufferFor(text, name)
          [] OTHER ->
               c.p_to_c # "None" =>
                   HasStatement(text, name \o <<"_converted", " = ">>
                                          \o Apply(c.p_to_c, c.c_type, name))

RECURSIVE OutputsFrom(_, _)
OutputsFrom(d, k) ==
    IF k > Len(DeclaredParams(d)) THEN <<>>
    ELSE (IF RoleOf(d, k) = "Output" THEN <<DeclaredParams(d)[k]>> ELSE <<>>)
         \o OutputsFrom(d, k + 1)

\* The elements that follow the first one in the last statement of the body.
TupleTail(text) == Tail(Split(Last(BodyLines(text)), ", "))

\* The elements that follow the first one in the tuple return type.
TupleTypeTail(text) ==
    LET annotation == ReturnAnnotation(text)
    IN  Tail(Split(SubSeq(annotation, 2, Len(annotation) - 1), ", "))

\* C14: when a declaration has several Output parameters, the elements that
\* follow the primary result in the returned tuple are their names, and
\* those that follow it in the tuple return type their host types, both in
\* the declared order of the Output parameters.
C14_OutputsInDeclaredOrder ==
    \A i \in 1..Len(emitted) :
        LET outs == OutputsFrom(DeclOf(i), 1)
            text == emitted[i].text
        IN  Len(outs) >= 2 =>
            /\ TupleTail(text) = [k \in 1..Len(outs) |-> outs[k].name]
            /\ Head(ReturnAnnotation(text)) = "\"Tuple["
            /\ Last(ReturnAnnotation(text)) = "]\""
            /\ TupleTypeTail(text) =
                   [k \in 1..Len(outs) |-> get_param_conversion(DeclaredType(outs[k])).p_type]

\* A wrapper of a declaration whose Output parameters are declared size_out
\* first and count_out second, with an Input parameter between them.
C14_Witness ==
    \E i \in 1..Len(emitted) :
        /\ RawNames(DeclOf(i)) = <<<<"size", "_out">>, <<"p">>, <<"count", "_out">>>>
        /\ TupleTail(emitted[i].text) = <<<<"size", "_out">>, <<"count", "_out">>>>

\* ------------------------------------------------------------------ C15
\* The parameter list is the bare (void).
SoleVoid(d) == Len(d.params) = 1 /\ d.params[1] = P(<<>>, <<"void">>)

\* The number of tokens split(',') finds between the parentheses: one for
\* each parameter, and one, the empty token, when there is nothing.
TokenCount(d) == IF d.params = <<>> THEN 1 ELSE Len(d.params)

\* C15: get_param returns None for the bare token void and a Parameter for
\* every other token: the wrapper of a declaration whose sole parameter is
\* void has no parameter, an empty signature and an empty argument list,
\* and the wrapper of any other declaration has one parameter per token,
\* with the declared names in declared order.
C15_OnlyBareVoidIsDropped ==
    \A i \in 1..Len(emitted) :
        LET d == DeclOf(i)
            w == emitted[i]
        IN  IF SoleVoid(d)
            THEN /\ w.parameters = <<>>
                 /\ Signature(w.text) = <<>>
                 /\ CallArgs(w.text) = <<>>
            ELSE /\ Len(w.parameters) = TokenCount(d)
                 /\ HasParamList(d) =>
                        [k \in 1..Len(w.parameters) |-> w.parameters[k].name]
                            = [k \in 1..Len(d.params) |-> HostName(d.params[k].name)]

\* The wrapper of a declaration with the parameter list (void).
C15_Witness ==
    \E i \in 1..Len(emitted) :
        /\ SoleVoid(DeclOf(i))
        /\ HasAtom(emitted[i].text, "_lib.")

\* The parameter of type void * of pfree(void *ptr) is kept.
VoidPointerIsKept ==
    \A i \in 1..Len(emitted) :
        DeclOf(i) = Pfree =>
            /\ SigNames(emitted[i].text) = <<<<"ptr">>>>
            /\ SigTypes(emitted[i].text) = <<Quoted(<<"void", " ", "*">>)>>

\* ------------------------------------------------------------------ C16
StringGiven(a) == a.string # NoneTuple

CompletePair(a) ==
    \/ (a.xmin # NoneTuple /\ a.xmax # NoneTuple)
    \/ (a.tmin # NoneTuple /\ a.tmax # NoneTuple)

SomeBound(a) == \E f \in {"xmin", "xmax", "tmin", "tmax"} : a[f] # NoneTuple

Passed == call.outcome = "constructed"

\* C16: a call of the constructor without _inner passes the assertion if and
\* only if exactly one of the two holds: string is given, or a complete
\* bound pair is given; it fails with neither, with both, and with only half
\* of a pair.  A call with _inner passes, and the object refers to _inner
\* whatever the other arguments are.
C16_ExactlyOneOfStringAndPair ==
    call.outcome # "none" =>
        IF call.args._inner = NoneTuple
        THEN /\ Passed <=> (StringGiven(call.args) /\ ~CompletePair(call.args))
                              \/ (~StringGiven(call.args) /\ CompletePair(call.args))
             /\ (~StringGiven(call.args) /\ ~SomeBound(call.args)) => ~Passed
             /\ (StringGiven(call.args) /\ CompletePair(call.args)) => ~Passed
             /\ (~StringGiven(call.args) /\ SomeBound(call.args) /\ ~CompletePair(call.args))
                    => ~Passed
        ELSE /\ Passed
             /\ Last(boxes)._inner = call.args._inner
             /\ call.by = "_inner"

\* A call with _inner, a string and a complete bound pair has constructed
\* an object.
C16_Witness ==
    /\ Passed
    /\ call.args._inner # NoneTuple
    /\ StringGiven(call.args)
    /\ CompletePair(call.args)

\* ------------------------------------------------------------------ C17
\* The Conversion of the parameter that is the result carrier.
ResultConversion(d) == get_param_conversion(DeclaredType(Last(DeclaredParams(d))))

\* The contents of the result buffer after the native-to-host step of c.
ConvertedContents(c) ==
    IF c.c_to_p = "None" THEN <<"out_result", "[0]">>
    ELSE Apply(c.c_to_p, c.c_type, <<"out_result", "[0]">>)

\* The lines of the body that are not empty.
RECURSIVE NonEmpty(_)
NonEmpty(lines) ==
    IF lines = <<>> THEN <<>>
    ELSE (IF Head(lines) = <<>> THEN <<>> ELSE <<Head(lines)>>) \o NonEmpty(Tail(lines))

\* The body has one return, no condition and no raise.
ReturnsUnconditionally(text) ==
    /\ Count(text, "return") = 1
    /\ ~HasAtom(text, "raise")
    /\ ~HasAtom(text, "if")

\* C17: for a declaration with a Result parameter and a return type other
\* than bool, the wrapper has no raise and no condition, and its last
\* statement returns the converted contents of the result buffer; the value
\* of the native call is not returned.
C17_ReturnsConvertedBuffer ==
    \A i \in 1..Len(emitted) :
        (HasResultRole(DeclOf(i)) /\ DeclOf(i).ret # <<"bool">>) =>
            /\ ReturnsUnconditionally(emitted[i].text)
            /\ Last(NonEmpty(BodyLines(emitted[i].text)))
                   = <<"    ", "return", " ">> \o ConvertedContents(ResultConversion(DeclOf(i)))

\* What the code does: the last statement returns the contents of the
\* buffer as they are, out_result[0] (no Output parameter being present).
ReturnsRawBuffer ==
    \A i \in 1..Len(emitted) :
        (HasResultRole(DeclOf(i)) /\ DeclOf(i).ret # <<"bool">> /\ ~HasOutputRole(DeclOf(i))) =>
            /\ ReturnsUnconditionally(emitted[i].text)
            /\ Last(NonEmpty(BodyLines(emitted[i].text)))
                   = <<"    ", "return", " ", "out_result", "[0]">>

\* ------------------------------------------------------------------ C18
\* The contents of the buffer of an Output parameter after the
\* native-to-host step of its Conversion.
BufferContents(p) ==
    LET c == get_param_conversion(DeclaredType(p))
    IN  IF c.c_to_p = "None" THEN p.name \o <<"[0]">>
        ELSE Apply(c.c_to_p, c.c_type, p.name \o <<"[0]">>)

\* The statement that converts the value of the native call, when the
\* Conversion of the return type has a native-to-host converter.
PrimaryIsConverted(text, d) ==
    get_return_type(d.ret)[2] # None =>
        HasStatement(text, <<"result", " = ">> \o get_return_type(d.ret)[2])

\* C18: when Output parameters are present the last statement returns
\* 1 + (number of Output parameters) values: the primary result, converted
\* when the return type has a native-to-host converter, and the converted
\* contents of the buffer of each Output parameter.
C18_TupleOfContents ==
    \A i \in 1..Len(emitted) :
        LET d == DeclOf(i)
            outs == OutputsFrom(d, 1)
            text == emitted[i].text
        IN  Len(outs) >= 1 =>
            /\ PrimaryIsConverted(text, d)
            /\ Last(BodyLines(text)) =
                   <<"    ", "return", " ", "result">>
                       \o Concat([k \in 1..Len(outs) |-> <<", ">> \o BufferContents(outs[k])])

\* What the code does when there is no Result parameter: the last statement
\* returns the primary result and the buffers themselves.
ReturnsBufferHandles ==
    \A i \in 1..Len(emitted) :
        LET d == DeclOf(i)
            outs == OutputsFrom(d, 1)
            text == emitted[i].text
        IN  (Len(outs) >= 1 /\ ~HasResultRole(d)) =>
            /\ PrimaryIsConverted(text, d)
            /\ Last(BodyLines(text)) =
                   <<"    ", "return", " ", "result">>
                       \o Concat([k \in 1..Len(outs) |-> <<", ">> \o outs[k].name])

\* ------------------------------------------------------------------ C19
\* The text build_function_string returns for a declaration.
TextOfDecl(d) == Wrapper(finditer(JoinSplitLines(SourceOf(d)), 1)[1]).text

\* A name that is not in the table of manual functions.
PlainName == <<"tbox_make">>

\* The text with every occurrence of the name from replaced by the name to.
Renamed(text, from, to) ==
    [k \in 1..Len(text) |-> IF text[k] = from[1] THEN to[1] ELSE text[k]]

\* C19: the text emitted for a function of the table of manual functions is
\* the comment line of its note followed by exactly the text emitted for the
\* same declaration under a name that is not in the table, but for the name.
C19_NoteChangesNothingElse ==
    \A i \in 1..Len(emitted) :
        LET d == DeclOf(i)
        IN  d.fn \in DOMAIN manual_functions =>
                emitted[i].text =
                    <<"#TODO ", manual_functions[d.fn], "\n">>
                        \o Renamed(TextOfDecl([d EXCEPT !.fn = PlainName]), PlainName, d.fn)

\* The wrapper of a function of the table, with a Result parameter, has
\* been emitted.
C19_Witness ==
    \E i \in 1..Len(emitted) :
        /\ DeclOf(i).fn = <<"periodset_periods">>
        /\ Head(emitted[i].text) = "#TODO "
        /\ HasAtom(emitted[i].text, "out_result")

\* ------------------------------------------------------------------ C20
DoublePointer(c) == EndsWith(c.c_type, <<"*", "*">>)

\* The host type is generic: it names no word of the native type.
GenericHostType(c) ==
    \A k \in 1..Len(c.c_type) : IsWord(c.c_type[k]) => ~HasAtom(c.p_type, c.c_type[k])

\* The converter casts each element of a sequence to the native type t.
CastsEachTo(template, t) ==
    /\ template # "None"
    /\ Apply(template, t \o <<"*">>, <<"xs">>)
           = <<"[_ffi.cast('">> \o t \o <<"', x) for x in ", "xs", "]">>

\* The type T * of the elements of a T **.
ElementType(c) == Front(c.c_type)

\* C20 as stated: for an unregistered double-pointer type T ** the host
\* type of the Conversion is a generic sequence type, the host-to-native
\* converter casts each element to T * and the native-to-host converter is
\* the identity.
C20_GenericSequenceHostType ==
    \A i \in 1..Len(emitted) :
        \A k \in 1..Len(emitted[i].conversions) :
            LET c == emitted[i].conversions[k]
            IN  (Unregistered(c) /\ DoublePointer(c)) =>
                    /\ GenericHostType(c)
                    /\ Last(ElementType(c)) = "*"
                    /\ CastsEachTo(c.p_to_c, ElementType(c))
                    /\ PassesThrough(c.c_to_p, c.c_type)

\* C20 as amended: the host type is the name of the native type T ** in
\* quotes, the host-to-native converter casts each element to T * and the
\* native-to-host converter is the identity.
C20_QuotedNameHostType ==
    \A i \in 1..Len(emitted) :
        \A k \in 1..Len(emitted[i].conversions) :
            LET c == emitted[i].conversions[k]
            IN  (Unregistered(c) /\ DoublePointer(c)) =>
                    /\ c.p_type = Quoted(c.c_type)
                    /\ Last(ElementType(c)) = "*"
                    /\ ~EndsWith(ElementType(c), <<"*", "*">>)
                    /\ CastsEachTo(c.p_to_c, ElementType(c))
                    /\ PassesThrough(c.c_to_p, c.c_type)

\* The wrapper of periodset_timestamps, whose parameter times is a
\* TimestampTz **, has been emitted with the conversion statement of times.
C20_Witness ==
    \E i \in 1..Len(emitted) :
        /\ \E k \in 1..Len(emitted[i].conversions) :
               emitted[i].conversions[k].c_type = <<"TimestampTz", " ", "*", "*">>
        /\ HasStatement(emitted[i].text,
                        <<"times", "_converted", " = ", "[_ffi.cast('",
                          "TimestampTz", " ", "*", "', x) for x in ", "times", "]">>)

\* ------------------------------------------------------------------ C21
\* The prototype is variadic.
IsVariadic(d) == \E i \in 1..Len(d.params) : HasAtom(d.params[i].name, "...")

\* The prototype has a parameter that is a pointer to a function.
HasFunctionPointer(d) ==
    \E i \in 1..Len(d.params) : HasAtom(d.params[i].type \o d.params[i].name, "(")

\* The prototype uses a pointer of more than two levels.
HasDeepPointer(d) ==
    \/ Count(d.ret, "*") > 2
    \/ \E i \in 1..Len(d.params) : Count(d.params[i].type, "*") > 2

\* The statements of ds that are of none of the kinds, in order.
RECURSIVE Without(_, _)
Without(ds, kinds) ==
    IF ds = <<>> THEN <<>>
    ELSE (IF \/ ("variadic" \in kinds /\ IsVariadic(Head(ds)))
             \/ ("function pointer" \in kinds /\ HasFunctionPointer(Head(ds)))
             \/ ("deep pointer" \in kinds /\ HasDeepPointer(Head(ds)))
          THEN <<>> ELSE <<Head(ds)>>)
         \o Without(Tail(ds), kinds)

\* The output of a completed run over the statements ds.
OutputFor(ds) ==
    LET ms == finditer(JoinSplitLines(Source(ds)), 1)
    IN  BASE \o Concat([k \in 1..Len(ms) |-> Wrapper(ms[k]).text \o <<"\n", "\n", "\n">>])

\* C21: a completed run writes no wrapper for a prototype that is variadic,
\* has a function-pointer parameter or uses a pointer of more than two
\* levels, and its output is the output for the other statements alone.
C21_UnsupportedAreSkipped ==
    pc = "done" =>
        /\ file = OutputFor(Without(decls, {"variadic", "function pointer", "deep pointer"}))
        /\ \A i \in 1..Len(decls) :
               (IsVariadic(decls[i]) \/ HasFunctionPointer(decls[i]) \/ HasDeepPointer(decls[i]))
                   => ~InList(decls[i].fn, DefNames(SubSeq(file, Len(BASE) + 1, Len(file))))

\* What the code does: the variadic prototypes and those with a
\* function-pointer parameter are skipped and leave the rest of the output
\* as it is.
VariadicAndFunctionPointerAreSkipped ==
    pc = "done" =>
        /\ file = OutputFor(Without(decls, {"variadic", "function pointer"}))
        /\ \A i \in 1..Len(decls) :
               (IsVariadic(decls[i]) \/ HasFunctionPointer(decls[i]))
                   => ~InList(decls[i].fn, DefNames(SubSeq(file, Len(BASE) + 1, Len(file))))

\* A completed run over a skipped prototype followed by a declaration.
SkippedWitness ==
    /\ pc = "done"
    /\ Len(decls) = 2
    /\ decls[1] = FunctionPointer
    /\ Len(emitted) = 1

\* ------------------------------------------------------------------ C22
\* The number of pointer markers of a declared parameter, and its base type.
PointerLevel(p) == Count(p.type, "*")

BaseType(p) == RStrip(RStrip(RStrip(p.type, " "), "*"), " ")

Stars(n) == [k \in 1..n |-> "*"]

\* The token of the parameter with the markers written before the name,
\* "T *n", and apart from it, "T * n".
AttachedToken(p) == BaseType(p) \o <<" ">> \o Stars(PointerLevel(p)) \o p.name

SpacedToken(p) ==
    BaseType(p) \o <<" ">> \o Stars(PointerLevel(p)) \o <<" ">> \o p.name

\* C22: for a parameter of base type T, name n and one or two pointer
\* markers, the tokens "T *n" and "T * n" ("T **n" and "T ** n") yield the
\* same parameter, of type "T *" ("T **") and name n, which is the
\* parameter of the wrapper; the name does not start with "*".
C22_PointerMarkersAreFolded ==
    \A i \in 1..Len(emitted) :
        \A k \in 1..Len(DeclaredParams(DeclOf(i))) :
            LET p == DeclaredParams(DeclOf(i))[k]
                type == BaseType(p) \o <<" ">> \o Stars(PointerLevel(p))
            IN  PointerLevel(p) \in {1, 2} =>
                    /\ get_param(AttachedToken(p)) = get_param(SpacedToken(p))
                    /\ param_type_of(AttachedToken(p)) = type
                    /\ param_type_of(SpacedToken(p)) = type
                    /\ emitted[i].parameters[k] = get_param(AttachedToken(p))
                    /\ emitted[i].parameters[k].name = HostName(p.name)
                    /\ emitted[i].parameters[k].p_type = get_param_conversion(type).p_type
                    /\ Head(emitted[i].parameters[k].name) # "*"

\* The wrapper of a declaration written "Foo * p, Bar ** q, char * str".
C22_Witness ==
    \E i \in 1..Len(emitted) :
        /\ DeclOf(i) = SpacedPointers
        /\ SigTypes(emitted[i].text)
               = <<Quoted(<<"Foo", " ", "*">>), Quoted(<<"Bar", " ", "*", "*">>), <<"str">>>>


\* ------------------------------------------------------------------ C23
\* The methods that return a changed copy of the receiver.
CopyingMethods == {"shift", "tscale", "shift_tscale", "round"}

\* The handles the objects of boxes refer to.
HandlesOf(bs) == {bs[b]._inner : b \in 1..Len(bs)}

\* The last call was shift_tscale (or shift, or tscale, which call it) with
\* neither a shift nor a duration.
BothNone(o) ==
    /\ o.method # "round"
    /\ o.args.shift = NoneTuple
    /\ o.args.duration = NoneTuple

\* A step that calls one of the four methods leaves every object and every
\* native struct that existed before the call as it was; when the call
\* returns, the object it returns is a new one and refers to a new struct,
\* which differs from the struct of the receiver at most in the dimension
\* the method changes; shift_tscale fails its assertion exactly when shift
\* and duration are both None, and then nothing is constructed.
LeavesReceiver ==
    op'.method \in CopyingMethods =>
        LET self == boxes[op'.self]
            returned == Last(boxes')
        IN  /\ \A b \in 1..Len(boxes) : boxes'[b] = boxes[b]
            /\ \A a \in 1..Len(heap) : heap'[a] = heap[a]
            /\ heap'[self._inner.addr] = Deref(self._inner)
            /\ (op'.outcome = "AssertionError") <=> BothNone(op')
            /\ op'.outcome # "returned" => UNCHANGED <<boxes, heap>>
            /\ op'.outcome = "returned" =>
                   /\ Len(boxes') = Len(boxes) + 1
                   /\ returned._inner \notin HandlesOf(boxes)
                   /\ returned._inner.addr \notin 1..Len(heap)
                   /\ IF op'.method = "round"
                      THEN heap'[returned._inner.addr].period = Deref(self._inner).period
                      ELSE heap'[returned._inner.addr].span = Deref(self._inner).span

\* C23: shift, tscale, shift_tscale and round return a new TBox and never
\* modify the receiver: the native calls change only a copy made with
\* tbox_copy, so the struct behind self._inner is the same after the call;
\* shift_tscale fails its assertion when shift and duration are both None.
C23_MethodsLeaveReceiver == [][LeavesReceiver]_vars

\* shift_tscale has returned an object whose period is not the one of the
\* receiver, and the receiver still exists.
C23_Witness ==
    /\ op.method = "shift_tscale"
    /\ op.outcome = "returned"
    /\ op.args.shift = TimeDelta(2)
    /\ Deref(Last(boxes)._inner).period # Deref(boxes[op.self]._inner).period

\* round has returned an object whose span is not the one of the receiver.
RoundHasRounded ==
    /\ op.method = "round"
    /\ op.outcome = "returned"
    /\ Deref(Last(boxes)._inner).span # Deref(boxes[op.self]._inner).span

\* shift_tscale has failed its assertion.
ShiftTscaleHasFailed ==
    /\ op.method = "shift_tscale"
    /\ op.outcome = "AssertionError"

\* shift was called with a timedelta of zero: the assertion passed, and
\* the native call was given neither a shift nor a duration.
ZeroShiftReachesNative ==
    /\ op.method = "shift"
    /\ op.args.shift = TimeDelta(0)
    /\ op.outcome \in {"NativeError", "returned"}


\* ------------------------------------------------------------------ C24
\* The statement that converts an Input parameter.
ConversionLine(p) ==
    LET name == HostName(p.name)
        c == get_param_conversion(DeclaredType(p))
    IN  <<"    ">> \o name \o <<"_converted", " = ">> \o Apply(c.p_to_c, c.c_type, name)

\* The conversion statements of the Input parameters from the k-th on that
\* have a host-to-native converter, in declared order.
RECURSIVE ConversionsFrom(_, _)
ConversionsFrom(d, k) ==
    IF k > Len(DeclaredParams(d)) THEN <<>>
    ELSE (IF /\ RoleOf(d, k) = "Input"
             /\ get_param_conversion(DeclaredType(DeclaredParams(d)[k])).p_to_c # "None"
          THEN <<ConversionLine(DeclaredParams(d)[k])>> ELSE <<>>)
         \o ConversionsFrom(d, k + 1)

\* The statement that allocates the buffer called name for parameter p.
AllocationLine(name, p) ==
    <<"    ">> \o name \o <<" = ", "_ffi.new(">>
        \o get_param_conversion(DeclaredType(p)).p_type \o <<")">>

\* The allocations: the buffer of the Result parameter, then those of the
\* Output parameters.
Allocations(d) ==
    LET outs == OutputsFrom(d, 1)
    IN  (IF HasResultRole(d)
         THEN <<AllocationLine(<<"out_result">>, Last(DeclaredParams(d)))>> ELSE <<>>)
        \o [k \in 1..Len(outs) |-> AllocationLine(HostName(outs[k].name), outs[k])]

\* The statements of the body: its lines without the blank ones (a body
\* with allocations and no conversion starts with a line of four blanks).
RECURSIVE NonBlank(_)
NonBlank(lines) ==
    IF lines = <<>> THEN <<>>
    ELSE (IF Head(lines) \in {<<>>, <<"    ">>} THEN <<>> ELSE <<Head(lines)>>)
         \o NonBlank(Tail(lines))

Statements(text) == NonBlank(BodyLines(text))

\* A line that assigns a converted value, and one that allocates a buffer.
IsConversionLine(line) ==
    \E k \in 1..(Len(line) - 1) : line[k] = "_converted" /\ line[k + 1] = " = "

IsAllocationLine(line) == HasAtom(line, "_ffi.new(")

\* The argument is a variable of the body: a converted value or a buffer.
IsBodyVariable(d, arg) ==
    \/ EndsWith(arg, <<"_converted">>)
    \/ arg = <<"out_result">>
    \/ \E k \in 1..Len(OutputsFrom(d, 1)) : arg = HostName(OutputsFrom(d, 1)[k].name)

\* C24: the body of a wrapper is, in this order: the conversion statements
\* of the Input parameters, the allocations of the buffers of the Result and
\* Output parameters, one native call (no other line calls the library),
\* and the statements that return or raise; no statement converts a Result
\* or Output parameter, and every converted value or buffer given to the
\* native call is assigned by a statement before the call.
C24_BodyIsOrdered ==
    \A i \in 1..Len(emitted) :
        LET d == DeclOf(i)
            text == emitted[i].text
            lines == Statements(text)
            conversions == ConversionsFrom(d, 1)
            allocations == Allocations(d)
            before == Len(conversions) + Len(allocations)
        IN  HasParamList(d) =>
            /\ Len(lines) > before
            /\ SubSeq(lines, 1, Len(conversions)) = conversions
            /\ SubSeq(lines, Len(conversions) + 1, before) = allocations
            /\ \A k \in 1..Len(lines) : IsCallLine(lines[k]) <=> k = before + 1
            /\ \A k \in (before + 1)..Len(lines) :
                   ~IsConversionLine(lines[k]) /\ ~IsAllocationLine(lines[k])
            /\ \A k \in 1..Len(DeclaredParams(d)) :
                   RoleOf(d, k) # "Input" =>
                       \A j \in 1..Len(lines) :
                           ~StartsWith(lines[j], <<"    ">> \o HostName(DeclaredParams(d)[k].name)
                                                     \o <<"_converted">>)
            /\ \A a \in 1..Len(CallArgs(text)) :
                   IsBodyVariable(d, CallArgs(text)[a]) =>
                       \E j \in 1..before :
                           StartsWith(lines[j], <<"    ">> \o CallArgs(text)[a] \o <<" = ">>)

\* A wrapper whose body has a conversion, the allocation of the result
\* buffer and the allocation of an output buffer before the call, and a
\* return statement after it; its Result parameter has a type with a
\* host-to-native converter and is not converted.
C24_Witness ==
    \E i \in 1..Len(emitted) :
        LET d == DeclOf(i)
            lines == Statements(emitted[i].text)
        IN  /\ HasParamList(d)
            /\ Len(ConversionsFrom(d, 1)) >= 1
            /\ HasResultRole(d)
            /\ Len(OutputsFrom(d, 1)) >= 1
            /\ DeclaredType(Last(DeclaredParams(d))) = <<"char", " ", "*">>
            /\ Len(lines) >= 5
            /\ IsConversionLine(lines[1])
            /\ IsAllocationLine(lines[2])
            /\ IsAllocationLine(lines[3])
            /\ IsCallLine(lines[4])

\* A wrapper of a declaration with one parameter whose name ends in _out:
\* the parameter is an Input one and is converted.
SoleOutIsConverted ==
    \E i \in 1..Len(emitted) :
        LET d == DeclOf(i)
        IN  /\ Len(DeclaredParams(d)) = 1
            /\ DeclaredParams(d)[1].name = <<"size", "_out">>
            /\ IsConversionLine(Statements(emitted[i].text)[1])


\* A wrapper with a result buffer and no conversion: its body starts with a
\* line of four blanks, which is no statement.
BodyStartsBlank ==
    \E i \in 1..Len(emitted) :
        /\ HasResultRole(DeclOf(i))
        /\ ConversionsFrom(DeclOf(i), 1) = <<>>
        /\ Head(BodyLines(emitted[i].text)) = <<"    ">>

====
